---- MODULE Spec2Model ----
(***************************************************************************)
(* EmbCalc (src/js/embcalc-modern.js): the settings store (loadSettings,   *)
(* saveSettings, validateNumber, saveSettingsFromForm) and the price       *)
(* calculation (validateInput, getFormData, performCalculations,           *)
(* calculatePrice) of class EmbroideryCalculator.                          *)
(*                                                                         *)
(* Numbers.  A JavaScript number is a record [k, v]:                       *)
(*    k = "num": the finite number v/1000 (fixed point, thousandths),      *)
(*    k = "nan": NaN,   k = "inf": +Infinity (v = 1) or -Infinity (v = -1).*)
(* The sampled inputs keep every product and quotient exact at 1/1000;     *)
(* binary floating-point rounding is outside the model.                    *)
(*                                                                         *)
(* Raw values.  What parseFloat/parseInt receive (a DOM string, a JSON     *)
(* value, undefined) is a record [t, pre, n, junk]:                        *)
(*    t = "number": a JSON number (pre = "num", value n/1000; pre = "inf": *)
(*                  a literal such as 1e999),                              *)
(*    t = "text":   a string with a leading numeric part (pre = "num",     *)
(*                  value n/1000), a leading "Infinity" (pre = "inf", sign *)
(*                  n) or none (pre = "none"), followed by other characters*)
(*                  when junk is TRUE: "" is (none, FALSE), "abc" is       *)
(*                  (none, TRUE), "5" is (num 5000, FALSE), "5abc" is      *)
(*                  (num 5000, TRUE),                                      *)
(*    t = "undefined": undefined or null.                                  *)
(***************************************************************************)
EXTENDS Integers, FiniteSets, Sequences, TLC

VARIABLES
    settings,           \* this.settings
    stored,             \* localStorage entry 'embcalc-settings'
    storageMode,        \* "ok", "full" (setItem throws), "down" (getItem and setItem throw)
    errorNotification,  \* text shown by showError, "" when hidden
    successNotification, \* text shown by showSuccess, "" when hidden
    warned,             \* console.warn of loadSettings was emitted since page load
    uncaught,           \* an exception escaped a handler
    form,               \* contents of the order form at the latest submission
    formSchema,         \* min / max attributes of the order form's inputs
    inputErrors,        \* per-field error shown by showInputError
    request,            \* outcome of the latest calculatePrice
    rtPc, rtLoaded, rtSaved,   \* load / save / load / save scenario and its snapshots
    vnArgs, vnResult    \* arguments and result of a validateNumber call

setVars  == <<settings, stored, storageMode, errorNotification, successNotification,
              warned, uncaught>>
calcVars == <<form, formSchema, inputErrors, request>>
rtVars   == <<rtPc, rtLoaded, rtSaved>>
vnVars   == <<vnArgs, vnResult>>
vars     == <<settings, stored, storageMode, errorNotification, successNotification,
              warned, uncaught,
              form, formSchema, inputErrors, request, rtPc, rtLoaded, rtSaved,
              vnArgs, vnResult>>

----------------------------------------------------------------------------
(* Bounds of the sampled inputs.                                           *)

\* distance (in thousandths) of the samples just outside a range
Eps == 1
\* largest item count typed into the order form
MaxItems == 3
\* largest applique count typed into the order form
MaxAppliques == 2
\* largest stitch count typed into the order form, in thousands of stitches
MaxStitchK == 8

----------------------------------------------------------------------------
(* JavaScript numbers.                                                     *)

Num(n) == [k |-> "num", v |-> n]
NaN    == [k |-> "nan", v |-> 0]
Inf(s) == [k |-> "inf", v |-> s]

\* Number.MAX_VALUE: finite, above every sampled number, below Infinity
MAX_VALUE == 2000000000

isNaN(x)    == x.k = "nan"
IsFinite(x) == x.k = "num"
Ext(x)      == IF x.k = "inf" THEN x.v * 2147483647 ELSE x.v

\* a < b and a > b of JavaScript: FALSE whenever an operand is NaN
Lt(a, b) == ~isNaN(a) /\ ~isNaN(b) /\ Ext(a) < Ext(b)
Gt(a, b) == Lt(b, a)

\* ToBoolean of a number: 0 and NaN are falsy
Falsy(x) == isNaN(x) \/ (x.k = "num" /\ x.v = 0)
\* x || d
OrElse(x, d) == IF Falsy(x) THEN d ELSE x

Sign(n) == IF n < 0 THEN -1 ELSE 1

\* a + b
Add(a, b) ==
    IF isNaN(a) \/ isNaN(b) THEN NaN
    ELSE IF a.k = "inf" /\ b.k = "inf" THEN (IF a.v = b.v THEN a ELSE NaN)
    ELSE IF a.k = "inf" THEN a
    ELSE IF b.k = "inf" THEN b
    ELSE Num(a.v + b.v)

\* a * b
Mul(a, b) ==
    IF isNaN(a) \/ isNaN(b) THEN NaN
    ELSE IF a.k = "inf" \/ b.k = "inf"
         THEN (IF a.v = 0 \/ b.v = 0 THEN NaN ELSE Inf(Sign(a.v) * Sign(b.v)))
    ELSE Num((a.v * b.v) \div 1000)

\* a / c for a positive literal c (c in units)
DivBy(a, c) == IF a.k = "num" THEN Num(a.v \div c) ELSE a

----------------------------------------------------------------------------
(* Raw values and their parsing.                                           *)

JsonNumber(n) == [t |-> "number", pre |-> "num", n |-> n, junk |-> FALSE]
JsonHuge      == [t |-> "number", pre |-> "inf", n |-> 1, junk |-> FALSE]
Undefined     == [t |-> "undefined", pre |-> "none", n |-> 0, junk |-> FALSE]
Text(n)       == [t |-> "text", pre |-> "num", n |-> n, junk |-> FALSE]
TextJunk(n)   == [t |-> "text", pre |-> "num", n |-> n, junk |-> TRUE]
TextInf(s)    == [t |-> "text", pre |-> "inf", n |-> s, junk |-> FALSE]
EmptyText     == [t |-> "text", pre |-> "none", n |-> 0, junk |-> FALSE]
Letters       == [t |-> "text", pre |-> "none", n |-> 0, junk |-> TRUE]

\* value === ''
IsEmpty(raw) == raw = EmptyText

\* parseFloat: the longest numeric prefix of String(raw), NaN when there is none
parseFloat(raw) ==
    IF raw.pre = "num" THEN Num(raw.n)
    ELSE IF raw.pre = "inf" THEN Inf(raw.n)
    ELSE NaN

\* integer part, toward zero
Trunc(n) == IF n >= 0 THEN (n \div 1000) * 1000 ELSE -(((-n) \div 1000) * 1000)

\* parseInt: the leading integer digits of the string, NaN when there are none
parseInt(raw) ==
    IF raw.pre = "num" THEN Num(Trunc(raw.n)) ELSE NaN

----------------------------------------------------------------------------
(* Settings.                                                               *)

DefaultStitchRate    == 500
DefaultAppliqueRate  == 1000
DefaultInsuranceRate == 100
MinRate              == 0
MaxStitchRate        == 10000
MaxAppliqueRate      == 50000
MaxInsuranceRate     == 1000

SettingsFields == {"stitchRate", "appliqueRate", "insuranceRate"}

DefaultSettings ==
    [stitchRate    |-> Num(DefaultStitchRate),
     appliqueRate  |-> Num(DefaultAppliqueRate),
     insuranceRate |-> Num(DefaultInsuranceRate)]

validateNumber_NoUpperBound(value, defaultValue, min, max) ==
    LET num == parseFloat(value)
    IN  IF isNaN(num) \/ Lt(num, min) THEN defaultValue ELSE num

validateNumber_ExclusiveBounds(value, defaultValue, min, max) ==
    LET num == parseFloat(value)
    IN  IF isNaN(num) \/ ~Gt(num, min) \/ ~Lt(num, max) THEN defaultValue ELSE num

validateNumber(value, defaultValue, min, max) ==
    LET num == parseFloat(value)
    IN  IF isNaN(num) \/ Lt(num, min) \/ Gt(num, max) THEN defaultValue ELSE num

\* the three validateNumber calls shared by loadSettings and saveSettingsFromForm
ValidatedSettings(s, a, i) ==
    [stitchRate    |-> validateNumber(s, Num(DefaultStitchRate), Num(MinRate), Num(MaxStitchRate)),
     appliqueRate  |-> validateNumber(a, Num(DefaultAppliqueRate), Num(MinRate), Num(MaxAppliqueRate)),
     insuranceRate |-> validateNumber(i, Num(DefaultInsuranceRate), Num(MinRate), Num(MaxInsuranceRate))]

----------------------------------------------------------------------------
(* The stored record: what localStorage.getItem('embcalc-settings') holds. *)
(*   kind "absent"    no entry (getItem returns null)                      *)
(*        "empty"     the empty string                                     *)
(*        "malformed" text JSON.parse rejects                              *)
(*        "null"      the JSON text null                                   *)
(*        "other"     a JSON number, string, boolean or array              *)
(*        "object"    a JSON object; a property it lacks reads undefined   *)

StorageModes == {"ok", "full", "down"}

NoFields(kind) ==
    [kind |-> kind, stitchRate |-> Undefined, appliqueRate |-> Undefined,
     insuranceRate |-> Undefined]

StoredObject(s, a, i) ==
    [kind |-> "object", stitchRate |-> s, appliqueRate |-> a, insuranceRate |-> i]

\* JSON.stringify of one number: NaN and the infinities are written as null
StringifyNumber(x) == IF IsFinite(x) THEN JsonNumber(x.v) ELSE Undefined

Stringify_DropsAppliqueRate(s) ==
    StoredObject(StringifyNumber(s.stitchRate), Undefined,
                 StringifyNumber(s.insuranceRate))

\* JSON.stringify(this.settings)
Stringify(s) ==
    StoredObject(StringifyNumber(s.stitchRate), StringifyNumber(s.appliqueRate),
                 StringifyNumber(s.insuranceRate))

\* String(x) of a number, as parseFloat reads it back
NumberAsRaw(x) ==
    IF x.k = "num" THEN JsonNumber(x.v)
    ELSE IF x.k = "inf" THEN TextInf(x.v)
    ELSE Letters

SaveErrorMessage == "Settings could not be saved. Please check your browser settings."
FormErrorMessage == "Please correct the errors above before calculating."
SuccessMessage   == "Settings saved successfully!"

saveSettings_ResetsOnFailure(s, st, mode, err) ==
    IF mode = "ok"
    THEN [settings |-> s, stored |-> Stringify(s), error |-> err, uncaught |-> FALSE]
    ELSE [settings |-> DefaultSettings, stored |-> st, error |-> SaveErrorMessage,
          uncaught |-> FALSE]

\* saveSettings: the outcome of the call with this.settings = s, the stored
\* record st and the notification err
saveSettings(s, st, mode, err) ==
    IF mode = "ok"
    THEN [settings |-> s, stored |-> Stringify(s), error |-> err, uncaught |-> FALSE]
    ELSE [settings |-> s, stored |-> st, error |-> SaveErrorMessage,
          uncaught |-> FALSE]

\* the try block of loadSettings throws: getItem, JSON.parse, or the property
\* read of a parsed null
LoadThrows(st, mode) == mode = "down" \/ st.kind \in {"malformed", "null"}

loadSettings_NoSelfHeal(s, st, mode, err) ==
    IF LoadThrows(st, mode)
    THEN [settings |-> s, stored |-> st, error |-> err, uncaught |-> FALSE,
          warned |-> TRUE]
    ELSE IF st.kind \in {"absent", "empty"}
    THEN [settings |-> s, stored |-> st, error |-> err, uncaught |-> FALSE,
          warned |-> FALSE]
    ELSE [settings |-> ValidatedSettings(st.stitchRate, st.appliqueRate, st.insuranceRate),
          stored |-> st, error |-> err, uncaught |-> FALSE, warned |-> FALSE]

loadSettings_AllOrNothing(s, st, mode, err) ==
    IF LoadThrows(st, mode)
    THEN [warned |-> TRUE] @@ saveSettings(s, st, mode, err)
    ELSE IF st.kind \in {"absent", "empty"}
    THEN [settings |-> s, stored |-> st, error |-> err, uncaught |-> FALSE,
          warned |-> FALSE]
    ELSE LET v == ValidatedSettings(st.stitchRate, st.appliqueRate, st.insuranceRate)
             asStored == \A f \in SettingsFields : v[f] = parseFloat(st[f])
         IN  [settings |-> IF asStored THEN v ELSE DefaultSettings,
              stored |-> st, error |-> err, uncaught |-> FALSE, warned |-> FALSE]

\* loadSettings: the outcome of the call with this.settings = s
loadSettings(s, st, mode, err) ==
    IF LoadThrows(st, mode)
    THEN [warned |-> TRUE] @@ saveSettings(s, st, mode, err)
    ELSE IF st.kind \in {"absent", "empty"}
    THEN [settings |-> s, stored |-> st, error |-> err, uncaught |-> FALSE,
          warned |-> FALSE]
    ELSE [settings |-> ValidatedSettings(st.stitchRate, st.appliqueRate, st.insuranceRate),
          stored |-> st, error |-> err, uncaught |-> FALSE, warned |-> FALSE]

\* the three parses of saveSettingsFromForm, from the texts of the inputs
FormStitchRate(text)    == OrElse(parseFloat(text), Num(DefaultStitchRate))
FormAppliqueRate(text)  == OrElse(parseFloat(text), Num(DefaultAppliqueRate))
FormInsuranceRate(text) == OrElse(DivBy(parseFloat(text), 100), Num(DefaultInsuranceRate))

\* the settings saveSettingsFromForm assigns
FormSettings(s, a, i) ==
    ValidatedSettings(NumberAsRaw(FormStitchRate(s)), NumberAsRaw(FormAppliqueRate(a)),
                      NumberAsRaw(FormInsuranceRate(i)))

----------------------------------------------------------------------------
(* Sampled inputs of the settings store.                                   *)

MaxOf(f) ==
    IF f = "stitchRate" THEN MaxStitchRate
    ELSE IF f = "appliqueRate" THEN MaxAppliqueRate ELSE MaxInsuranceRate

\* a valid rate other than the default (the custom settings 0.75, 1.50, 0.20)
AltOf(f) ==
    IF f = "stitchRate" THEN 750 ELSE IF f = "appliqueRate" THEN 1500 ELSE 200

\* values a stored property may hold: below the range, its lower bound, a
\* valid rate, above the range
StoredSamples(f) ==
    {JsonNumber(MinRate - Eps), JsonNumber(MinRate), JsonNumber(AltOf(f)),
     JsonNumber(MaxOf(f) + Eps)}

\* the same and more: missing, the upper bound, text, text with a numeric
\* prefix, 1e999
StoredSamplesWide(f) ==
    StoredSamples(f)
    \cup {Undefined, JsonNumber(MaxOf(f)), Letters, TextJunk(AltOf(f)), JsonHuge}

StoredRecords(Samples(_)) ==
    {NoFields(k) : k \in {"absent", "empty", "malformed", "null", "other"}}
    \cup {StoredObject(s, a, i) : s \in Samples("stitchRate"),
                                  a \in Samples("appliqueRate"),
                                  i \in Samples("insuranceRate")}

\* texts of the two rate inputs of the settings form: empty, below the
\* range, 0, a valid rate, above the range
RateTexts(f) ==
    {EmptyText, Text(MinRate - Eps), Text(MinRate), Text(AltOf(f)), Text(MaxOf(f) + Eps)}

\* texts of the insurance input, a percentage: empty, just below 0, 0, 20,
\* just above 100
PercentTexts ==
    {EmptyText, Text(100 * (MinRate - Eps)), Text(MinRate),
     Text(100 * AltOf("insuranceRate")), Text(100 * (MaxInsuranceRate + Eps))}

----------------------------------------------------------------------------
(* The order form and the calculation: state at rest.                      *)

OrderFields == {"stitches", "items", "appliques", "blankCost", "designCost"}

NoRequest == [status |-> "none", data |-> <<>>, results |-> <<>>]
NoErrors  == [f \in OrderFields |-> ""]
BlankForm == [f \in OrderFields |-> EmptyText]
NoSchema  == [f \in OrderFields |-> [min |-> EmptyText, max |-> EmptyText]]

CalcAtRest ==
    /\ form = BlankForm
    /\ formSchema = NoSchema
    /\ inputErrors = NoErrors
    /\ request = NoRequest

RtAtRest == rtPc = "off" /\ rtLoaded = DefaultSettings /\ rtSaved = NoFields("absent")

VnAtRest == vnArgs = <<>> /\ vnResult = NaN

----------------------------------------------------------------------------
(* The settings store: operations.                                         *)

\* the page before the script runs: any stored record, any storage condition
Init ==
    /\ settings = DefaultSettings
    /\ stored \in StoredRecords(StoredSamples)
    /\ storageMode \in StorageModes
    /\ errorNotification = ""
    /\ successNotification = ""
    /\ warned = FALSE
    /\ uncaught = FALSE
    /\ CalcAtRest /\ RtAtRest /\ VnAtRest

Apply(r) ==
    /\ settings' = r.settings
    /\ stored' = r.stored
    /\ errorNotification' = r.error
    /\ uncaught' = (uncaught \/ r.uncaught)

\* new EmbroideryCalculator(): the defaults, then loadSettings
ConstructCore ==
    LET r == loadSettings(DefaultSettings, stored, storageMode, "")
    IN  /\ Apply(r)
        /\ warned' = r.warned
        /\ successNotification' = ""
        /\ UNCHANGED storageMode

\* loadSettings() on the running instance
LoadSettingsCore ==
    LET r == loadSettings(settings, stored, storageMode, errorNotification)
    IN  /\ Apply(r)
        /\ warned' = (warned \/ r.warned)
        /\ UNCHANGED <<storageMode, successNotification>>

\* saveSettings() on the running instance
SaveSettingsCore ==
    /\ Apply(saveSettings(settings, stored, storageMode, errorNotification))
    /\ UNCHANGED <<storageMode, successNotification, warned>>

\* the settings form is submitted with the texts s, a, i in its inputs:
\* the settings are assigned, saveSettings runs, showSuccess follows
SaveSettingsFromFormWith(s, a, i) ==
    /\ successNotification' = SuccessMessage
    /\ UNCHANGED <<storageMode, warned>>
    /\ Apply(saveSettings(FormSettings(s, a, i), stored, storageMode, errorNotification))

SaveSettingsFromFormCore ==
    \E s \in RateTexts("stitchRate"), a \in RateTexts("appliqueRate"), i \in PercentTexts :
        SaveSettingsFromFormWith(s, a, i)

\* the 5 s timer of showError fires
HideErrorCore ==
    /\ errorNotification # ""
    /\ errorNotification' = ""
    /\ UNCHANGED <<settings, stored, storageMode, successNotification, warned, uncaught>>

\* the 3 s timer of showSuccess fires
HideSuccessCore ==
    /\ successNotification # ""
    /\ successNotification' = ""
    /\ UNCHANGED <<settings, stored, storageMode, errorNotification, warned, uncaught>>

\* the environment: storage fills up, is disabled, or recovers
StorageChangeCore ==
    /\ storageMode' \in StorageModes \ {storageMode}
    /\ UNCHANGED <<settings, stored, errorNotification, successNotification, warned,
                   uncaught>>

others == <<calcVars, rtVars, vnVars>>

Construct            == ConstructCore /\ UNCHANGED others
LoadSettings         == LoadSettingsCore /\ UNCHANGED others
SaveSettings         == SaveSettingsCore /\ UNCHANGED others
SaveSettingsFromForm == SaveSettingsFromFormCore /\ UNCHANGED others
HideError            == HideErrorCore /\ UNCHANGED others
HideSuccess          == HideSuccessCore /\ UNCHANGED others
StorageChange        == StorageChangeCore /\ UNCHANGED others

Next ==
    \/ Construct
    \/ LoadSettings
    \/ SaveSettings
    \/ SaveSettingsFromForm
    \/ HideError
    \/ HideSuccess
    \/ StorageChange

Spec == Init /\ [][Next]_vars

----------------------------------------------------------------------------
(* Saving alone: a running instance whose store works, fills up or is      *)
(* disabled while the user saves settings.                                 *)

InitSave ==
    /\ settings = DefaultSettings
    /\ stored \in {NoFields("absent"), Stringify(DefaultSettings)}
    /\ storageMode \in StorageModes
    /\ errorNotification = ""
    /\ successNotification = ""
    /\ warned = FALSE
    /\ uncaught = FALSE
    /\ CalcAtRest /\ RtAtRest /\ VnAtRest

NextSave ==
    \/ SaveSettings
    \/ SaveSettingsFromForm
    \/ HideError
    \/ HideSuccess
    \/ StorageChange

SpecSave == InitSave /\ [][NextSave]_vars

----------------------------------------------------------------------------
(* Load, save, load again, save again: the life of the stored record       *)
(* across page loads, from any record first found in storage.              *)

InitLoad ==
    /\ settings = DefaultSettings
    /\ stored \in StoredRecords(StoredSamplesWide)
    /\ storageMode \in StorageModes
    /\ errorNotification = ""
    /\ successNotification = ""
    /\ warned = FALSE
    /\ uncaught = FALSE
    /\ rtPc = "start" /\ rtLoaded = DefaultSettings /\ rtSaved = NoFields("absent")
    /\ CalcAtRest /\ VnAtRest

\* the page loads: the constructor runs loadSettings
RtLoad ==
    /\ rtPc = "start"
    /\ ConstructCore
    /\ rtPc' = "loaded" /\ rtLoaded' = settings' /\ UNCHANGED rtSaved
    /\ UNCHANGED <<calcVars, vnVars>>

\* saveSettings
RtSave ==
    /\ rtPc = "loaded"
    /\ SaveSettingsCore
    /\ rtPc' = "saved" /\ rtSaved' = stored' /\ UNCHANGED rtLoaded
    /\ UNCHANGED <<calcVars, vnVars>>

\* the page is loaded again
RtReloadPage ==
    /\ rtPc = "saved"
    /\ ConstructCore
    /\ rtPc' = "reloaded" /\ UNCHANGED <<rtLoaded, rtSaved>>
    /\ UNCHANGED <<calcVars, vnVars>>

\* loadSettings is called again on the running instance
RtReloadCall ==
    /\ rtPc = "saved"
    /\ LoadSettingsCore
    /\ rtPc' = "reloaded" /\ UNCHANGED <<rtLoaded, rtSaved>>
    /\ UNCHANGED <<calcVars, vnVars>>

\* saveSettings once more
RtResave ==
    /\ rtPc = "reloaded"
    /\ SaveSettingsCore
    /\ rtPc' = "resaved" /\ UNCHANGED <<rtLoaded, rtSaved>>
    /\ UNCHANGED <<calcVars, vnVars>>

NextLoad ==
    \/ RtLoad
    \/ RtSave
    \/ RtReloadPage
    \/ RtReloadCall
    \/ RtResave

SpecLoad == InitLoad /\ [][NextLoad]_vars

----------------------------------------------------------------------------
(* validateNumber on its own.                                              *)

SetAtRest ==
    /\ settings = DefaultSettings
    /\ stored = NoFields("absent")
    /\ storageMode = "ok"
    /\ errorNotification = ""
    /\ successNotification = ""
    /\ warned = FALSE
    /\ uncaught = FALSE

\* (default, min, max): the three calls of the code, and other ranges
VnRanges ==
    {<<DefaultStitchRate, MinRate, MaxStitchRate>>,
     <<DefaultAppliqueRate, MinRate, MaxAppliqueRate>>,
     <<DefaultInsuranceRate, MinRate, MaxInsuranceRate>>}
    \cup {<<d, lo, hi>> : d \in {0, 3000}, lo \in {-2000, 1000}, hi \in {1000, 5000}}

\* values around the two ends of [lo, hi], and what is not a number
VnValues(lo, hi) ==
    {JsonNumber(lo - Eps), JsonNumber(lo), JsonNumber(lo + Eps),
     JsonNumber(hi - Eps), JsonNumber(hi), JsonNumber(hi + Eps),
     Text(lo), Text(hi + Eps), TextJunk(hi), TextJunk(hi + Eps),
     EmptyText, Letters, Undefined, JsonHuge, TextInf(1), TextInf(-1)}

InitValidate == SetAtRest /\ CalcAtRest /\ RtAtRest /\ VnAtRest

ValidateNumberCall ==
    /\ \E r \in VnRanges :
         \E x \in VnValues(r[2], r[3]) :
            /\ vnArgs' = [value |-> x, defaultValue |-> Num(r[1]),
                          min |-> Num(r[2]), max |-> Num(r[3])]
            /\ vnResult' = validateNumber(x, Num(r[1]), Num(r[2]), Num(r[3]))
    /\ UNCHANGED <<setVars, calcVars, rtVars>>

NextValidate == ValidateNumberCall

SpecValidate == InitValidate /\ [][NextValidate]_vars

----------------------------------------------------------------------------
(* The order form and the price calculation.                               *)

\* the required attribute of each input
Required(f) == f = "stitches"

InputError_SkipsRequired(value, required, min, max) ==
    LET v  == parseFloat(value)
        lo == OrElse(parseFloat(min), Num(0))
        hi == OrElse(parseFloat(max), Num(MAX_VALUE))
    IN  IF IsEmpty(value) /\ ~required THEN ""
        ELSE IF ~isNaN(v) /\ (Lt(v, lo) \/ Gt(v, hi)) THEN "range"
        ELSE ""

InputError_SkipsRange(value, required, min, max) ==
    LET v  == parseFloat(value)
    IN  IF IsEmpty(value) /\ ~required THEN ""
        ELSE IF required /\ (IsEmpty(value) \/ isNaN(v)) THEN "required"
        ELSE ""

\* validateInput: "" when the input is accepted, else the error it shows
\* ("required": 'This field is required'; "range": 'Value must be between
\* min and max')
InputError(value, required, min, max) ==
    LET v  == parseFloat(value)
        lo == OrElse(parseFloat(min), Num(0))
        hi == OrElse(parseFloat(max), Num(MAX_VALUE))
    IN  IF IsEmpty(value) /\ ~required THEN ""
        ELSE IF required /\ (IsEmpty(value) \/ isNaN(v)) THEN "required"
        ELSE IF ~isNaN(v) /\ (Lt(v, lo) \/ Gt(v, hi)) THEN "range"
        ELSE ""

\* the loop of getFormData over the inputs of the form
FormErrors(f, schema) ==
    [x \in OrderFields |-> InputError(f[x], Required(x), schema[x].min, schema[x].max)]

\* the object getFormData returns for a valid form
ExtractData(f) ==
    [stitches   |-> OrElse(parseInt(f.stitches), Num(0)),
     items      |-> OrElse(parseInt(f.items), Num(1000)),
     appliques  |-> OrElse(parseInt(f.appliques), Num(0)),
     blankCost  |-> OrElse(parseFloat(f.blankCost), Num(0)),
     designCost |-> OrElse(parseFloat(f.designCost), Num(0))]

performCalculations_InsuranceOnSubtotal(data, s) ==
    LET stitchCost    == Mul(DivBy(data.stitches, 1000), s.stitchRate)
        appliqueCost  == Mul(data.appliques, s.appliqueRate)
        blankCost     == data.blankCost
        insuranceCost == Mul(Add(Add(stitchCost, appliqueCost), blankCost), s.insuranceRate)
        designCost    == data.designCost
        perItemCost   == Add(Add(Add(Add(stitchCost, appliqueCost), blankCost),
                                 insuranceCost), designCost)
    IN  [stitchCost |-> stitchCost, appliqueCost |-> appliqueCost,
         blankCost |-> blankCost, insuranceCost |-> insuranceCost,
         designCost |-> designCost, perItemCost |-> perItemCost,
         totalCost |-> Mul(perItemCost, data.items)]

performCalculations(data, s) ==
    LET stitchCost    == Mul(DivBy(data.stitches, 1000), s.stitchRate)
        appliqueCost  == Mul(data.appliques, s.appliqueRate)
        blankCost     == data.blankCost
        insuranceCost == Mul(blankCost, s.insuranceRate)
        designCost    == data.designCost
        perItemCost   == Add(Add(Add(Add(stitchCost, appliqueCost), blankCost),
                                 insuranceCost), designCost)
    IN  [stitchCost |-> stitchCost, appliqueCost |-> appliqueCost,
         blankCost |-> blankCost, insuranceCost |-> insuranceCost,
         designCost |-> designCost, perItemCost |-> perItemCost,
         totalCost |-> Mul(perItemCost, data.items)]

\* calculatePrice with the texts f in the inputs of the order form
CalculatePriceWith(f) ==
    LET errors == FormErrors(f, formSchema)
        valid  == \A x \in OrderFields : errors[x] = ""
        data   == ExtractData(f)
    IN  /\ form' = f
        /\ inputErrors' = errors
        /\ request' = IF valid
                      THEN [status |-> "computed", data |-> data,
                            results |-> performCalculations(data, settings)]
                      ELSE [status |-> "rejected", data |-> <<>>, results |-> <<>>]
        /\ errorNotification' = IF valid THEN errorNotification ELSE FormErrorMessage
        /\ UNCHANGED <<settings, stored, storageMode, successNotification, warned,
                       uncaught, formSchema>>

\* texts typed into the inputs of the order form
FieldTexts(x) ==
    IF x = "stitches"
    THEN {EmptyText, Letters, Text(-1000000), Text(MaxStitchK * 1000000)}
    ELSE IF x = "items"
    THEN {EmptyText, Text(0), Text(MaxItems * 1000)}
    ELSE IF x = "appliques"
    THEN {EmptyText, Text(-1500), Text(MaxAppliques * 1000)}
    ELSE IF x = "blankCost"
    THEN {EmptyText, Text(-1000), Text(4000), TextInf(1)}
    ELSE {EmptyText, Text(5000)}

Forms ==
    {[stitches |-> a, items |-> b, appliques |-> c, blankCost |-> d, designCost |-> e] :
        a \in FieldTexts("stitches"), b \in FieldTexts("items"),
        c \in FieldTexts("appliques"), d \in FieldTexts("blankCost"),
        e \in FieldTexts("designCost")}

\* min / max attributes: none; counts from 1 (items) or 0 with a cap on the
\* stitches; bounds that admit negative and infinite values
TypicalSchema ==
    [x \in OrderFields |->
        [min |-> IF x = "items" THEN Text(1000) ELSE Text(0),
         max |-> IF x = "stitches" THEN Text(MaxStitchK * 1000000) ELSE EmptyText]]
LooseSchema ==
    [x \in OrderFields |-> [min |-> Text(-5000000), max |-> TextInf(1)]]
Schemas == {NoSchema, TypicalSchema, LooseSchema}

CustomSettings ==
    [stitchRate |-> Num(AltOf("stitchRate")), appliqueRate |-> Num(AltOf("appliqueRate")),
     insuranceRate |-> Num(AltOf("insuranceRate"))]

\* a running instance with saved settings and an untouched order form
InitCalc ==
    /\ settings \in {DefaultSettings, CustomSettings}
    /\ stored = Stringify(settings)
    /\ storageMode = "ok"
    /\ errorNotification = ""
    /\ successNotification = ""
    /\ warned = FALSE
    /\ uncaught = FALSE
    /\ form = BlankForm
    /\ formSchema \in Schemas
    /\ inputErrors = NoErrors
    /\ request = NoRequest
    /\ RtAtRest /\ VnAtRest

CalculatePrice ==
    /\ \E f \in Forms : CalculatePriceWith(f)
    /\ UNCHANGED <<rtVars, vnVars>>

HideFormError ==
    /\ HideErrorCore
    /\ UNCHANGED others

NextCalc ==
    \/ CalculatePrice
    \/ HideFormError

SpecCalc == InitCalc /\ [][NextCalc]_vars

----------------------------------------------------------------------------
(* Claims about the settings store.                                        *)

\* C1: in every reachable state the in-memory settings are finite numbers
\* with 0 <= stitchRate <= 10, 0 <= appliqueRate <= 50, 0 <= insuranceRate <= 1.
C1_SettingsInRange ==
    /\ \A f \in SettingsFields : IsFinite(settings[f])
    /\ 0 <= settings.stitchRate.v /\ settings.stitchRate.v <= 10000
    /\ 0 <= settings.appliqueRate.v /\ settings.appliqueRate.v <= 50000
    /\ 0 <= settings.insuranceRate.v /\ settings.insuranceRate.v <= 1000

\* a record with an out-of-range stitch rate has been loaded, and a rate
\* other than the default is in memory
C1_Witness ==
    /\ stored.kind = "object"
    /\ stored.stitchRate = JsonNumber(10001)
    /\ stored.appliqueRate = JsonNumber(1500)
    /\ settings.stitchRate = Num(500)
    /\ settings.appliqueRate = Num(1500)

C2_DefaultRecord == StoredObject(JsonNumber(500), JsonNumber(1000), JsonNumber(100))
C2_Defaults == [stitchRate |-> Num(500), appliqueRate |-> Num(1000), insuranceRate |-> Num(100)]

\* C2 as stated: when the stored record is absent, or present but malformed
\* or of the wrong shape, the load at construction leaves the defaults in
\* memory and writes them to (working) storage.
C2_Original ==
    [][(ConstructCore /\ storageMode = "ok"
           /\ stored.kind \in {"absent", "malformed", "null", "other"})
        => (settings' = C2_Defaults /\ stored' = C2_DefaultRecord)]_vars

\* C2 amended: the load at construction leaves the defaults in memory in all
\* these cases; it writes them to storage only when reading the record throws
\* (JSON.parse rejects it, or it parses to null) and the store is writable;
\* an absent or empty record, and a record that parses to a value of the
\* wrong shape, leave storage as it was.
C2_SelfHealOnThrowOnly ==
    [][(ConstructCore /\ storageMode # "down")
        => /\ stored.kind \in {"absent", "empty", "malformed", "null", "other"}
                => settings' = C2_Defaults
           /\ stored.kind \in {"absent", "empty", "other"} => stored' = stored
           /\ stored.kind \in {"malformed", "null"}
                => stored' = (IF storageMode = "ok" THEN C2_DefaultRecord ELSE stored)]_vars

\* a malformed record was found at page load and replaced by the defaults
C2_Witness ==
    /\ rtPc = "loaded" /\ warned /\ storageMode = "ok"
    /\ stored = C2_DefaultRecord /\ settings = C2_Defaults

C3_AsStored(text) == JsonNumber(text.n)
C3_PercentAsStored(text) == JsonNumber(text.n \div 100)
C3_Numeric(T) == {x \in T : x.pre = "num"}
C3_Expected(v, max, default) == IF 0 <= v /\ v <= max THEN Num(v) ELSE Num(default)

\* C3: a value v entered in the settings form (insurance as the percentage
\* 100*v) yields the same setting as loading a stored record whose field is
\* v: v is kept when it lies in the field's range, 0 included, and replaced
\* by the default otherwise.
C3_FormMatchesLoad ==
    [][\A s \in C3_Numeric(RateTexts("stitchRate")),
          a \in C3_Numeric(RateTexts("appliqueRate")),
          i \in C3_Numeric(PercentTexts) :
          SaveSettingsFromFormWith(s, a, i)
            => /\ settings' = loadSettings(DefaultSettings,
                                  StoredObject(C3_AsStored(s), C3_AsStored(a),
                                               C3_PercentAsStored(i)), "ok", "").settings
               /\ settings'.stitchRate = C3_Expected(s.n, 10000, 500)
               /\ settings'.appliqueRate = C3_Expected(a.n, 50000, 1000)
               /\ settings'.insuranceRate = C3_Expected(i.n \div 100, 1000, 100)]_vars

C4_FormOutcomes ==
    {FormSettings(s, a, i) : s \in RateTexts("stitchRate"),
                             a \in RateTexts("appliqueRate"), i \in PercentTexts}

\* C4: when the storage write fails, saveSettings raises nothing, shows the
\* error notification, and leaves the stored record and the in-memory
\* settings as they were when it was called (for the settings form: the
\* settings just validated from the form).
C4_SaveFailureContained ==
    [][(storageMode # "ok" /\ (SaveSettingsCore \/ SaveSettingsFromFormCore))
        => /\ stored' = stored
           /\ errorNotification' = SaveErrorMessage
           /\ ~uncaught'
           /\ SaveSettingsCore => settings' = settings
           /\ SaveSettingsFromFormCore => settings' \in C4_FormOutcomes]_vars

\* a save from the settings form has failed: the error is shown, memory holds
\* the new settings and storage still holds the old record
C4_Witness ==
    /\ errorNotification = SaveErrorMessage
    /\ storageMode # "ok"
    /\ settings.stitchRate = Num(750)
    /\ stored # Stringify(settings)
    /\ ~uncaught

C7_Range(f) ==
    IF f = "stitchRate" THEN 10000 ELSE IF f = "appliqueRate" THEN 50000 ELSE 1000
C7_Default(f) ==
    IF f = "stitchRate" THEN 500 ELSE IF f = "appliqueRate" THEN 1000 ELSE 100
C7_IsNumber(raw) == raw.t = "number" /\ raw.pre = "num"
C7_Valid(f) == C7_IsNumber(stored[f]) /\ 0 <= stored[f].n /\ stored[f].n <= C7_Range(f)
C7_Invalid(f) ==
    \/ C7_IsNumber(stored[f]) /\ (stored[f].n < 0 \/ stored[f].n > C7_Range(f))
    \/ stored[f] \in {Undefined, Letters, JsonHuge}

C10_RoundTrip ==
    storageMode = "ok" =>
        /\ rtPc \in {"reloaded", "resaved"} => settings = rtLoaded
        /\ rtPc = "resaved" => stored = rtSaved

\* the scenario has run to its end from a record holding custom rates
C10_Witness ==
    /\ storageMode = "ok" /\ rtPc = "resaved"
    /\ settings = [stitchRate |-> Num(750), appliqueRate |-> Num(1500),
                   insuranceRate |-> Num(200)]
    /\ stored = rtSaved

----------------------------------------------------------------------------
(* Claims about validateNumber.                                            *)

\* x is a finite number: a JSON number, or text that is a number and nothing else
C8_IsNumber(x) == x.pre = "num" /\ ~x.junk
C8_Called == vnArgs # <<>>

\* C8 as stated: validateNumber returns x when x is a finite number with
\* min <= x <= max, the two bounds included, and default in every other
\* case (below min, above max, NaN, text that is not a number).
C8_Original ==
    C8_Called =>
        vnResult = IF /\ C8_IsNumber(vnArgs.value)
                      /\ vnArgs.min.v <= vnArgs.value.n
                      /\ vnArgs.value.n <= vnArgs.max.v
                   THEN Num(vnArgs.value.n)
                   ELSE vnArgs.defaultValue

\* C8 amended: validateNumber returns the number x starts with (x itself
\* when x is a number or wholly numeric text, 5 for "5abc") when that number
\* is finite and min <= it <= max, the two bounds included, and default in
\* every other case: below min, above max, the infinities, undefined, and
\* text that starts with no number ("abc", "").
C8_LeadingNumber ==
    C8_Called =>
        vnResult = IF /\ vnArgs.value.pre = "num"
                      /\ vnArgs.min.v <= vnArgs.value.n
                      /\ vnArgs.value.n <= vnArgs.max.v
                   THEN Num(vnArgs.value.n)
                   ELSE vnArgs.defaultValue

\* "10abc" was passed with the stitch-rate range and 10 came back
C8_Witness ==
    /\ C8_Called
    /\ vnArgs = [value |-> TextJunk(10000), defaultValue |-> Num(500),
                 min |-> Num(0), max |-> Num(10000)]
    /\ vnResult = Num(10000)

----------------------------------------------------------------------------
(* Claims about the order form and the calculation.                        *)

\* C5: when the stitches field is empty or non-numeric, calculatePrice
\* rejects the request: no OrderInput is produced, the errors are shown, and
\* performCalculations is not invoked (stitches is not defaulted to 0).
C5_StitchesRequired ==
    [][(CalculatePriceWith(form') /\ form'.stitches.pre = "none")
        => /\ request'.status = "rejected"
           /\ request'.data = <<>> /\ request'.results = <<>>
           /\ inputErrors'.stitches = "required"
           /\ errorNotification' = FormErrorMessage]_vars

\* a form whose only fault is the empty stitches field has been rejected
C5_Witness ==
    /\ request.status = "rejected"
    /\ form = [stitches |-> EmptyText, items |-> Text(3000), appliques |-> Text(2000),
               blankCost |-> Text(4000), designCost |-> Text(5000)]
    /\ inputErrors = [NoErrors EXCEPT !.stitches = "required"]
    /\ errorNotification = FormErrorMessage

C6_NonNegative(x) == x.k = "num" /\ x.v >= 0
C6_OrderAdmitted ==
    /\ C6_NonNegative(request.data.stitches)
    /\ request.data.items.k = "num" /\ request.data.items.v >= 1000
    /\ C6_NonNegative(request.data.appliques)
    /\ C6_NonNegative(request.data.blankCost)
    /\ C6_NonNegative(request.data.designCost)
    /\ form.items = EmptyText => request.data.items = Num(1000)
    /\ form.appliques = EmptyText => request.data.appliques = Num(0)
    /\ form.blankCost = EmptyText => request.data.blankCost = Num(0)
    /\ form.designCost = EmptyText => request.data.designCost = Num(0)
    /\ \A c \in DOMAIN request.results : C6_NonNegative(request.results[c])

\* C6 as stated: whatever the form holds and whatever min / max the inputs
\* carry, the OrderInput passed to performCalculations is finite with
\* stitches >= 0, items >= 1, appliques >= 0, blankCost >= 0, designCost >= 0,
\* absent optional fields defaulted, and every component of the breakdown
\* is non-negative.
C6_Original == request.status = "computed" => C6_OrderAdmitted

\* the min attribute is absent, not a number, or a number >= 0; the max
\* attribute is not infinite
C6_BoundsSound ==
    \A x \in OrderFields :
        /\ formSchema[x].min.pre = "none"
             \/ (formSchema[x].min.pre = "num" /\ formSchema[x].min.n >= 0)
        /\ formSchema[x].max.pre # "inf"

\* C6 amended: the same, provided every input's min attribute is absent or
\* non-negative and its max attribute is absent or finite.
C6_AdmittedUnderSoundBounds ==
    (request.status = "computed" /\ C6_BoundsSound) => C6_OrderAdmitted

\* an order with the optional fields left empty has been computed under
\* inputs that carry min attributes
C6_Witness ==
    /\ request.status = "computed"
    /\ formSchema = TypicalSchema
    /\ form = [stitches |-> Text(8000000), items |-> EmptyText, appliques |-> EmptyText,
               blankCost |-> Text(4000), designCost |-> EmptyText]
    /\ request.data = [stitches |-> Num(8000000), items |-> Num(1000),
                       appliques |-> Num(0), blankCost |-> Num(4000),
                       designCost |-> Num(0)]

C9_ExampleOrder ==
    [stitches |-> Num(8000000), items |-> Num(3000), appliques |-> Num(2000),
     blankCost |-> Num(4000), designCost |-> Num(5000)]
C9_Defaults == [stitchRate |-> Num(500), appliqueRate |-> Num(1000), insuranceRate |-> Num(100)]
C9_Finite(r) == \A c \in DOMAIN r : r[c].k = "num"

\* C9: the breakdown is stitches/1000 * stitchRate, appliques * appliqueRate,
\* blankCost, blankCost * insuranceRate, designCost, their sum, and the sum
\* times items, with nothing rounded away and with settings and storage left
\* alone; the example order under the default settings gives 15.40 per item
\* and 46.20 in total.
C9_Breakdown ==
    [][(CalculatePriceWith(form') /\ request'.status = "computed"
           /\ C9_Finite(request'.data))
        => LET d == request'.data
               r == request'.results
           IN  /\ C9_Finite(r)
               /\ r.stitchCost.v * 1000 = (d.stitches.v \div 1000) * settings.stitchRate.v
               /\ r.appliqueCost.v * 1000 = d.appliques.v * settings.appliqueRate.v
               /\ r.blankCost.v = d.blankCost.v
               /\ r.insuranceCost.v * 1000 = d.blankCost.v * settings.insuranceRate.v
               /\ r.designCost.v = d.designCost.v
               /\ r.perItemCost.v = r.stitchCost.v + r.appliqueCost.v + r.blankCost.v
                                      + r.insuranceCost.v + r.designCost.v
               /\ r.totalCost.v * 1000 = r.perItemCost.v * d.items.v
               /\ settings' = settings /\ stored' = stored
               /\ (d = C9_ExampleOrder /\ settings = C9_Defaults)
                    => (r.perItemCost = Num(15400) /\ r.totalCost = Num(46200))]_vars

\* the example order has been computed under the default settings
C9_Witness ==
    /\ request.status = "computed"
    /\ request.data = C9_ExampleOrder
    /\ settings = C9_Defaults
    /\ request.results.stitchCost = Num(4000)
    /\ request.results.insuranceCost = Num(400)
    /\ request.results.totalCost = Num(46200)

====
